---- MODULE Spec2Model ----
(***************************************************************************)
(* Category-tree resolution of python_test_task/main.py:                   *)
(*   build_category_tree         (main.py:105-125)                         *)
(*   get_offer_n_level_category  (main.py:186-210)                         *)
(*                                                                         *)
(* A Python str is modelled as a sequence of characters; a character is a  *)
(* one-element token, CATEGORY_PATH_SEP being the token "/".  A Python     *)
(* tuple or list of str is a sequence of such sequences.  A dict is a      *)
(* function; its iteration order is the sequence `order`.                  *)
(***************************************************************************)
EXTENDS Integers, Sequences, FiniteSets, TLC

(* ----------------------------- bounds ---------------------------------- *)

\* largest number of <category> records of a feed
MaxCats == 3

\* largest positive level asked of get_offer_n_level_category
MaxLevel == 4

\* the while loop of one category is followed for at most this many
\* iterations; an acyclic map of MaxCats records never needs more than
\* MaxCats - 1, so only a walk that went round a cycle meets this cap
MaxWalk == MaxCats + 1

(* ----------------------------- strings --------------------------------- *)

\* main.py:18
CATEGORY_PATH_SEP == "/"

\* str.join: sep.join(parts)
RECURSIVE Join(_, _)
Join(sep, parts) ==
    IF parts = <<>> THEN <<>>
    ELSE IF Len(parts) = 1 THEN parts[1]
    ELSE parts[1] \o <<sep>> \o Join(sep, Tail(parts))

\* str.split(sep) with a one-character separator: never empty, one more
\* part than there are separators in s, empty parts kept
RECURSIVE Split(_, _)
Split(s, sep) ==
    IF s = <<>> THEN << <<>> >>
    ELSE LET rest == Split(Tail(s), sep)
         IN  IF s[1] = sep
             THEN << <<>> >> \o rest
             ELSE << <<s[1]>> \o rest[1] >> \o Tail(rest)

\* list.pop() written for list.pop(0): the last element goes, not the first
PopLast(list) ==
    IF list = <<>> THEN [err |-> TRUE, list |-> list]
    ELSE [err |-> FALSE, list |-> SubSeq(list, 1, Len(list) - 1)]

\* list.pop(0): IndexError on an empty list, else the list without its head
Pop0(list) ==
    IF list = <<>> THEN [err |-> TRUE, list |-> list]
    ELSE [err |-> FALSE, list |-> Tail(list)]

\* a lenient lookup: an index out of range gives the empty string
PyIndexOrEmpty(list, k) ==
    IF k >= 0 /\ k < Len(list)
    THEN [err |-> FALSE, value |-> list[k + 1]]
    ELSE [err |-> FALSE, value |-> <<>>]

\* list[k] with Python's 0-based index, negative k counting from the end
PyIndex(list, k) ==
    IF k >= 0
    THEN IF k < Len(list)
         THEN [err |-> FALSE, value |-> list[k + 1]]
         ELSE [err |-> TRUE, value |-> <<>>]
    ELSE IF k >= 0 - Len(list)
         THEN [err |-> FALSE, value |-> list[Len(list) + k + 1]]
         ELSE [err |-> TRUE, value |-> <<>>]

(* ------------------------------ inputs --------------------------------- *)

\* ids of the n records of a feed: "1" .. "n"; no record has the id "",
\* the value main.py:96 keeps for a record without parentId
Keys(n) == {ToString(k) : k \in 1..n}

\* what parentId can hold: absent (""), a category of the feed, or an id
\* ("0") no category of the feed has
ParentIds(n) == {""} \cup Keys(n) \cup {"0"}

\* the text of a <category> element: a plain word, a name with the
\* separator inside once ("Blouses/shirts") or twice, a name that ends
\* with the separator
NameForms == {"plain", "inner", "double", "trailing"}

NameOf(id, form) ==
    IF form = "plain" THEN << "n" \o id >>
    ELSE IF form = "inner" THEN << "n" \o id, CATEGORY_PATH_SEP, "m" \o id >>
    ELSE IF form = "double"
    THEN << "n" \o id, CATEGORY_PATH_SEP, "m" \o id, CATEGORY_PATH_SEP, "k" \o id >>
    ELSE << "n" \o id, CATEGORY_PATH_SEP >>

\* the iteration orders of a dict with key set S
Orders(S) ==
    {o \in [1..Cardinality(S) -> S] : \A a, b \in 1..Cardinality(S) : o[a] = o[b] => a = b}

\* the ids a classification may be asked for: every key and one unknown id
CallIds == Keys(MaxCats) \cup {"0"}

\* level: >= 1 or = -1 (docstring of get_offer_n_level_category)
Levels == {-1} \cup (1..MaxLevel)

(* ------------------------------ state ---------------------------------- *)

VARIABLES
    categories,  \* the dict get_raw_categories returned: id -> record
    order,       \* its iteration order
    raw0,        \* categories as it was before build_category_tree was called
    pc,          \* "for", "while": inside build_category_tree; "built": after it
    i,           \* position of the for loop in order
    y,           \* id of the record y refers to
    steps,       \* iterations of the while loop made for the current x
    result,      \* the local dict result
    tree,        \* the dict build_category_tree returned last
    nbuilds,     \* calls of build_category_tree started
    first,       \* the dict the first call returned
    ret          \* outcome of the last get_offer_n_level_category call

vars == <<categories, order, raw0, pc, i, y, steps, result, tree, nbuilds, first, ret>>

EmptyDict == [k \in {} |-> <<>>]

NoCall == [id |-> "", level |-> 0, kind |-> "none", value |-> <<>>]

\* get_raw_categories (main.py:95-99): path starts as the one-tuple (name,)
RawCategory(parent_id, name) ==
    [parent_id |-> parent_id, name |-> name, path |-> <<name>>]

\* the feeds of n categories: every parentId assignment (chains, forests,
\* dangling parents, cycles) and the given choices of name forms
Feeds(n, forms) ==
    {[id \in Keys(n) |-> RawCategory(par[id], NameOf(id, form[id]))] :
        par \in [Keys(n) -> ParentIds(n)], form \in forms}

\* name forms of a feed in which at most one name holds the separator
OneOddName(n) ==
    {form \in [Keys(n) -> NameForms] :
        Cardinality({id \in Keys(n) : form[id] # "plain"}) <= 1}

PlainNames(n) == [Keys(n) -> {"plain"}]

\* ids numbered in document order: the dict iterates "1", "2", ...
DocOrder(n) == [k \in 1..n |-> ToString(k)]

Start ==
    /\ raw0 = categories
    /\ pc = "for"
    /\ i = 1
    /\ y = ""
    /\ steps = 0
    /\ result = EmptyDict
    /\ tree = EmptyDict
    /\ nbuilds = 1
    /\ first = EmptyDict
    /\ ret = NoCall

\* main(): ids are the positions of the <category> elements in the feed
\* (every shape of tree in every order is some parentId assignment of these)
Init ==
    /\ \E n \in 0..MaxCats :
         /\ categories \in Feeds(n, OneOddName(n))
         /\ order = DocOrder(n)
    /\ Start

\* build_category_tree alone: every iteration order of the dict
InitBuild ==
    /\ \E n \in 0..MaxCats : categories \in Feeds(n, PlainNames(n))
    /\ order \in Orders(DOMAIN categories)
    /\ Start

(* ------------------------ build_category_tree -------------------------- *)

\* dataclass Category (main.py:21-31)
Category(id, parent_id, name, path) ==
    [id |-> id, parent_id |-> parent_id, name |-> name, path |-> path]

\* main.py:119: categories.get(y["parent_id"]) is a record (truthy), not None
HasParent(cats, yid) == cats[yid].parent_id \in DOMAIN cats

\* the parent's path tuple prepended where its name is meant
PrependParentPath(parent, xpath) == parent.path \o xpath

\* main.py:120: (parent["name"],) + x["path"]
Prepend(parent, xpath) == <<parent.name>> \o xpath

\* main.py:117-118: the for loop takes the next item and sets y = x
ForNext ==
    /\ pc = "for"
    /\ i <= Len(order)
    /\ y' = order[i]
    /\ steps' = 0
    /\ pc' = "while"
    /\ UNCHANGED <<categories, order, raw0, i, result, tree, nbuilds, first, ret>>

\* main.py:119-121: one iteration of the while loop
WalkStep ==
    /\ pc = "while"
    /\ HasParent(categories, y)
    /\ steps < MaxWalk
    /\ LET x == order[i]
           parent == categories[categories[y].parent_id]
       IN  /\ categories' = [categories EXCEPT ![x].path = Prepend(parent, @)]
           /\ y' = categories[y].parent_id
    /\ steps' = steps + 1
    /\ UNCHANGED <<order, raw0, pc, i, result, tree, nbuilds, first, ret>>

\* main.py:122-124: the while loop ended, result[id] = Category(...)
Emit ==
    /\ pc = "while"
    /\ ~HasParent(categories, y)
    /\ LET id == order[i]
           x == categories[id]
           c == Category(id, x.parent_id, x.name, Join(CATEGORY_PATH_SEP, x.path))
       IN  result' = [k \in DOMAIN result \cup {id} |-> IF k = id THEN c ELSE result[k]]
    /\ i' = i + 1
    /\ pc' = "for"
    /\ UNCHANGED <<categories, order, raw0, y, steps, tree, nbuilds, first, ret>>

\* main.py:125: return result
Return ==
    /\ pc = "for"
    /\ i > Len(order)
    /\ tree' = result
    /\ pc' = "built"
    /\ UNCHANGED <<categories, order, raw0, i, y, steps, result, nbuilds, first, ret>>

\* build_category_tree is called once more with the same dict object
Rebuild ==
    /\ pc = "built"
    /\ nbuilds = 1
    /\ nbuilds' = 2
    /\ first' = tree
    /\ result' = EmptyDict
    /\ i' = 1
    /\ pc' = "for"
    /\ UNCHANGED <<categories, order, raw0, y, steps, tree, ret>>

(* --------------------- get_offer_n_level_category ---------------------- *)

Raise(exc, t) == [kind |-> exc, value |-> <<>>, tree |-> t]

Value(v, t) == [kind |-> "value", value |-> v, tree |-> t]

\* the remainder popped off the stored path itself, not off a split copy
get_offer_n_level_category_in_place(offer_category_id, level, category_tree) ==
    IF offer_category_id \notin DOMAIN category_tree
    THEN Raise("AttributeError", category_tree)
    ELSE LET path == Split(category_tree[offer_category_id].path, CATEGORY_PATH_SEP)
         IN  IF level = -1
             THEN LET p1 == Pop0(path)
                      p2 == Pop0(p1.list)
                      p3 == Pop0(p2.list)
                      left == [category_tree EXCEPT ![offer_category_id].path =
                                  Join(CATEGORY_PATH_SEP, p3.list)]
                  IN  IF p1.err \/ p2.err \/ p3.err
                      THEN Raise("IndexError", left)
                      ELSE Value(Join(CATEGORY_PATH_SEP, p3.list), left)
             ELSE LET e == PyIndex(path, level - 1)
                  IN  IF e.err
                      THEN Raise("IndexError", category_tree)
                      ELSE Value(e.value, category_tree)

\* main.py:201-210; the outcome and the tree as the call leaves it
get_offer_n_level_category(offer_category_id, level, category_tree) ==
    IF offer_category_id \notin DOMAIN category_tree
    THEN \* .get() gave None, None.path
         Raise("AttributeError", category_tree)
    ELSE LET path == Split(category_tree[offer_category_id].path, CATEGORY_PATH_SEP)
         IN  IF level = -1
             THEN LET p1 == Pop0(path)
                      p2 == Pop0(p1.list)
                      p3 == Pop0(p2.list)
                  IN  IF p1.err \/ p2.err \/ p3.err
                      THEN Raise("IndexError", category_tree)
                      ELSE Value(Join(CATEGORY_PATH_SEP, p3.list), category_tree)
             ELSE LET e == PyIndex(path, level - 1)
                  IN  IF e.err
                      THEN Raise("IndexError", category_tree)
                      ELSE Value(e.value, category_tree)

\* process_offer (main.py:262-274) asks for one level of one category id
Classify ==
    /\ pc = "built"
    /\ \E id \in CallIds, level \in Levels :
         LET r == get_offer_n_level_category(id, level, tree)
         IN  /\ ret' = [id |-> id, level |-> level, kind |-> r.kind, value |-> r.value]
             /\ tree' = r.tree
    /\ UNCHANGED <<categories, order, raw0, pc, i, y, steps, result, nbuilds, first>>

(* --------------------------- specifications ---------------------------- *)

\* main(): the tree is built once, then offers are classified
Next == ForNext \/ WalkStep \/ Emit \/ Return \/ Classify

Spec == Init /\ [][Next]_vars

\* the tree is built, then built again from the same dict
NextBuild == ForNext \/ WalkStep \/ Emit \/ Return \/ Rebuild

SpecBuild == InitBuild /\ [][NextBuild]_vars

(* ------------------------- what the claims use ------------------------- *)

\* the record reached from id after k steps along parent_id, or the first
\* parent_id on the way that is no key of cats
RECURSIVE Up(_, _, _)
Up(cats, id, k) ==
    IF k = 0 \/ id \notin DOMAIN cats THEN id
    ELSE Up(cats, cats[id].parent_id, k - 1)

\* no parent chain of cats runs into a cycle
Acyclic(cats) ==
    \A id \in DOMAIN cats : Up(cats, id, Cardinality(DOMAIN cats)) \notin DOMAIN cats

\* a root: parent_id empty or no key of cats
IsRoot(cats, id) == cats[id].parent_id = "" \/ cats[id].parent_id \notin DOMAIN cats

\* the names on the ancestor chain of id, root first, id last
RECURSIVE ChainNames(_, _, _)
ChainNames(cats, id, fuel) ==
    IF IsRoot(cats, id) \/ fuel = 0 THEN <<cats[id].name>>
    ELSE ChainNames(cats, cats[id].parent_id, fuel - 1) \o <<cats[id].name>>

Chain(cats, id) == ChainNames(cats, id, Cardinality(DOMAIN cats))

\* the segments of the resolved path of id
Segments(id) == Split(tree[id].path, CATEGORY_PATH_SEP)

\* ret is the outcome of a call made for a category of the built tree
CalledInTree == pc = "built" /\ ret.kind # "none" /\ ret.id \in DOMAIN tree

(* -------------------------------- C1 ----------------------------------- *)

C2_WalkBoundedByInputSize == steps <= Cardinality(DOMAIN categories)

(* -------------------------------- C3 ----------------------------------- *)

\* C3: the second build of the same map object returns a mapping identical
\* to the one the first build returned.
C3_RebuildIdentical == (pc = "built" /\ nbuilds = 2) => tree = first

(* -------------------------------- C4 ----------------------------------- *)

\* C4: build_category_tree leaves every record of the input map (parent_id,
\* name, path) as it was before the call.
C4_InputUnchanged == categories = raw0

(* -------------------------------- C5 ----------------------------------- *)

\* the value of level 1, 2 or 3 of id, as process_offer gets it
Lvl(id, level) == get_offer_n_level_category(id, level, tree).value

\* levels 1..3 and the remainder of a path of at least three segments are
\* its first three segments and the rest joined
C5_LevelsAreSegments ==
    /\ CalledInTree /\ Len(Segments(ret.id)) >= 3 /\ ret.level \in 1..3 =>
         ret.kind = "value" /\ ret.value = Segments(ret.id)[ret.level]
    /\ CalledInTree /\ Len(Segments(ret.id)) >= 3 /\ ret.level = -1 =>
         /\ ret.kind = "value"
         /\ ret.value = Join(CATEGORY_PATH_SEP,
                             SubSeq(Segments(ret.id), 4, Len(Segments(ret.id))))
         /\ Len(Segments(ret.id)) = 3 => ret.value = <<>>

\* C5 as stated: for a path of at least three segments, levels 1, 2, 3 are
\* its first three segments, level -1 the rest joined (empty for exactly
\* three), and the three levels followed by the remainder when the
\* remainder is non-empty, joined with "/", are the full path.
C5_Original ==
    /\ C5_LevelsAreSegments
    /\ CalledInTree /\ Len(Segments(ret.id)) >= 3 /\ ret.level = -1 =>
         LET lv == <<Lvl(ret.id, 1), Lvl(ret.id, 2), Lvl(ret.id, 3)>>
         IN  Join(CATEGORY_PATH_SEP,
                  IF ret.value # <<>> THEN lv \o <<ret.value>> ELSE lv)
               = tree[ret.id].path

\* C5 amended: the same, the remainder being appended when the path has
\* more than three segments (the remainder of a path such as "a/b/c/" is
\* the empty string although a fourth, empty, segment is there).
C5_LevelsPlusRemainder ==
    /\ C5_LevelsAreSegments
    /\ CalledInTree /\ Len(Segments(ret.id)) >= 3 /\ ret.level = -1 =>
         LET lv == <<Lvl(ret.id, 1), Lvl(ret.id, 2), Lvl(ret.id, 3)>>
         IN  Join(CATEGORY_PATH_SEP,
                  IF Len(Segments(ret.id)) > 3 THEN lv \o <<ret.value>> ELSE lv)
               = tree[ret.id].path

\* the remainder of a path of five segments was asked for and has two
C5_Witness ==
    /\ CalledInTree /\ ret.level = -1 /\ ret.kind = "value"
    /\ Len(Segments(ret.id)) = 5
    /\ Len(Split(ret.value, CATEGORY_PATH_SEP)) = 2

(* -------------------------------- C6 ----------------------------------- *)

\* C6: for a path of one or two segments level -1 returns the empty string
\* and raises nothing.
C6_ShallowRemainderEmpty ==
    (CalledInTree /\ ret.level = -1 /\ Len(Segments(ret.id)) < 3) =>
        (ret.kind = "value" /\ ret.value = <<>>)

(* -------------------------------- C7 ----------------------------------- *)

\* C7: a call for an id that is no key of the tree signals UnknownCategory,
\* at every level, and returns no value.
C7_UnknownCategorySignalled ==
    (pc = "built" /\ ret.kind # "none" /\ ret.id \notin DOMAIN tree) =>
        ret.kind = "UnknownCategory"

(* -------------------------------- C8 ----------------------------------- *)

\* C8: for a category of the tree and a positive level, a level beyond the
\* number of segments of its path raises the index-out-of-range error
\* (IndexError) and returns nothing; a level within it returns the segment
\* at that 1-based rank.
C8_PositiveLevel ==
    (CalledInTree /\ ret.level >= 1) =>
        IF ret.level > Len(Segments(ret.id))
        THEN ret.kind = "IndexError" /\ ret.value = <<>>
        ELSE ret.kind = "value" /\ ret.value = Segments(ret.id)[ret.level]

\* level 3 was asked of a path of two segments
C8_Witness ==
    /\ CalledInTree /\ ret.level = 3 /\ ret.kind = "IndexError"
    /\ Len(Segments(ret.id)) = 2

(* -------------------------------- C9 ----------------------------------- *)

\* C9: no call of get_offer_n_level_category, failing ones included,
\* changes the tree build_category_tree returned or a path in it, and a
\* call repeated with the same arguments has the same outcome.
C9_TreeNeverMutated ==
    [][pc = "built" =>
         /\ tree' = tree
         /\ (ret'.id = ret.id /\ ret'.level = ret.level) => ret' = ret]_vars

\* a call that failed has been made on a tree of three categories
C9_Witness ==
    /\ CalledInTree /\ ret.level = -1 /\ ret.kind = "IndexError"
    /\ Cardinality(DOMAIN tree) = 3 /\ tree = result

(* -------------------------------- C10 ---------------------------------- *)

\* C10: for a tree built from an acyclic input, level k of category c, k
\* up to the length of c's ancestor chain, is the name of the k-th category
\* of that chain counted from the root, whatever the names hold.
C10_LevelIsAncestorName ==
    (CalledInTree /\ Acyclic(raw0) /\ ret.level >= 1
       /\ ret.level <= Len(Chain(raw0, ret.id))) =>
        (ret.kind = "value" /\ ret.value = Chain(raw0, ret.id)[ret.level])

====
